---- MODULE Spec2Model ----
(***************************************************************************)
(* Model of scripts/multiproof_chunking_analysis.py: the synthetic         *)
(* workload model (sample_tx, generate_block), the chunk scheduler         *)
(* (simulate_block_time), the sweep driver (run_analysis), the empirical   *)
(* collector (collect_from_rpc) and main; and of run_tempo_bench of        *)
(* python_analysis/scripts/bench_and_kill.py.                              *)
(*                                                                         *)
(* Times are Python floats in the source.  Here every time is an exact     *)
(* integer number of hundredths of a millisecond (0.02 ms = 2, 0.15 ms =   *)
(* 15, 0.5 ms = 50), so sums and comparisons are those of exact            *)
(* arithmetic.  A ratio of two times (utilization) is kept as the pair     *)
(* <<numerator, denominator>>.                                             *)
(***************************************************************************)
EXTENDS Integers, Sequences, FiniteSets, TLC

(***************************************************************************)
(* Bounds of the model.                                                    *)
(***************************************************************************)
MaxTargets == 7
MaxChunkSize == 4
MaxWorkers == 4
\* gas limits handed to generate_block: GasStep * (0..MaxGasSteps)
GasStep == 10500
MaxGasSteps == 8
\* longest block of minimum-gas transactions handed to the deduplication
MaxTxCount == 300
\* longest block list handed to run_analysis
MaxBlocks == 3
\* the 95th percentile is taken of every series of up to MaxShortSeries
\* values in 1..MaxShortSeries and of the rotations of 1..n, n up to
\* MaxLongSeries
MaxShortSeries == 5
MaxLongSeries == 22
\* longest block range and longest transaction list of a block handed to
\* collect_from_rpc
MaxRpcBlocks == 2
MaxBlockTxs == 2
\* largest --blocks of main in synthetic mode
MaxRequested == 8
\* largest --duration-seconds handed to run_tempo_bench
MaxDuration == 2

(***************************************************************************)
(* Default cost model of simulate_block_time, in 1/100 ms.                 *)
(***************************************************************************)
t_per_target_ms == 2
t_chunk_overhead_ms == 15
t_fixed_ms == 50
DEFAULT_MAX_TARGETS_FOR_CHUNKING == 300

(***************************************************************************)
(* Waits of run_tempo_bench (scripts/bench_and_kill.py), in seconds: the   *)
(* buffer added to duration_seconds and the wait after SIGINT.             *)
(***************************************************************************)
BENCH_BUFFER_SECONDS == 30
SIGINT_WAIT_SECONDS == 30

VARIABLES
    targets,          \* simulate_block_time: argument targets
    chunk_size,       \* simulate_block_time: argument chunk_size
    workers,          \* simulate_block_time: argument workers
    simPc,            \* position in simulate_block_time
    should_chunk,     \* local should_chunk
    n_chunks,         \* local n_chunks
    chunk_targets,    \* local chunk_targets
    chunk_costs,      \* local chunk_costs
    pending,          \* the part of sorted(chunk_costs, reverse=True) not yet iterated
    loads,            \* local loads
    chunk_owner,      \* the values min_idx took, one per loop iteration
    result,           \* the returned dict
    simErr,           \* the exception raised, "" if none
    gas_limit,        \* generate_block: argument gas_limit
    profiles,         \* generate_block: argument profiles
    gas_used,         \* generate_block: local gas_used
    txs,              \* generate_block: local txs
    total_accounts,   \* generate_block: local total_accounts
    total_slots,      \* generate_block: local total_slots
    sampled,          \* every transaction sample_tx returned, in order
    dedup_factor,     \* generate_block: local dedup_factor, in 1/1000
    genPc,            \* position in generate_block
    block,            \* the dict generate_block returns
    blocks,           \* run_analysis: argument blocks
    ra_workers,       \* run_analysis: argument workers
    runPc,            \* position in run_analysis
    cs_idx,           \* index in chunk_sizes of the sweep's next candidate
    sweep_results,    \* run_analysis: local sweep_results
    best,             \* run_analysis: local best
    thr_idx,          \* index of the next candidate threshold
    threshold_rows,   \* the rows the threshold sweep printed
    dir_made,         \* os.makedirs(output_dir) was called
    csv_files,        \* the CSV files written
    runErr,           \* the exception run_analysis raised, "" if none
    times_in,         \* a wall time series: local times of run_analysis
    p95_out,          \* its 95th percentile: local p95 of run_analysis
    p95Pc,            \* position in the percentile computation
    start_block,      \* collect_from_rpc: argument start_block
    num_blocks,       \* collect_from_rpc: argument num_blocks
    block_num,        \* collect_from_rpc: loop variable block_num
    results,          \* collect_from_rpc: local results
    rpc_block,        \* gas_used, tx_count and transactions of the fetched block
    tx_idx,           \* index of the next transaction of the block
    rpc_accounts,     \* collect_from_rpc: local total_accounts (a set)
    rpc_slots,        \* collect_from_rpc: local total_slots (a set)
    rpcPc,            \* position in collect_from_rpc
    fetched,          \* history: the block numbers whose fetch gave a block
    skipped,          \* history: the block numbers whose fetch gave none
    clean_accounts,   \* history: addresses of the block's traces that did not fail
    clean_slots,      \* history: (address, slot) pairs of those traces
    traced,           \* history: the number of the block's transactions whose try block ran
    clean_log,        \* history: per record, the history of its block
    args,             \* main: the parsed command line
    mainPc,           \* position in main
    gas_targets,      \* main: local gas_targets
    main_blocks,      \* main: local blocks
    group,            \* the next of the four groups of gas targets to draw
    drawn,            \* history: gas_targets as built, before rng.shuffle
    made_for,         \* history: the gas target of every generate_block call
    duration_seconds, \* run_tempo_bench: argument duration_seconds
    timeout,          \* run_tempo_bench: local timeout
    proc_state,       \* the bench process: "none", "running" or "exited"
    returncode,       \* process.returncode: <<>> for None, else <<code>>
    elapsed,          \* seconds since subprocess.Popen returned
    benchPc,          \* position in run_tempo_bench
    benchErr,         \* the exception run_tempo_bench raised, "" if none
    err_code,         \* the returncode of the CalledProcessError raised
    signals,          \* history: the signals sent to the process, with their times
    timed_out         \* history: the waits that raised TimeoutExpired, with their times

simVars == <<targets, chunk_size, workers, simPc, should_chunk, n_chunks,
             chunk_targets, chunk_costs, pending, loads, chunk_owner,
             result, simErr>>

genVars == <<gas_limit, profiles, gas_used, txs, total_accounts, total_slots,
             sampled, dedup_factor, genPc, block>>

runVars == <<blocks, ra_workers, runPc, cs_idx, sweep_results, best, thr_idx,
             threshold_rows, dir_made, csv_files, runErr>>

p95Vars == <<times_in, p95_out, p95Pc>>

rpcVars == <<start_block, num_blocks, block_num, results, rpc_block, tx_idx,
             rpc_accounts, rpc_slots, rpcPc, fetched, skipped, clean_accounts,
             clean_slots, traced, clean_log>>

mainVars == <<args, mainPc, gas_targets, main_blocks, group, drawn, made_for>>

benchVars == <<duration_seconds, timeout, proc_state, returncode, elapsed,
               benchPc, benchErr, err_code, signals, timed_out>>

vars == <<simVars, genVars, runVars, p95Vars, rpcVars, mainVars, benchVars>>

\* the variables a component leaves alone
nonSimVars ==
    <<genVars, runVars, p95Vars, rpcVars, mainVars, benchVars>>
nonGenVars ==
    <<simVars, runVars, p95Vars, rpcVars, mainVars, benchVars>>
nonRunVars ==
    <<simVars, genVars, p95Vars, rpcVars, mainVars, benchVars>>
nonP95Vars ==
    <<simVars, genVars, runVars, rpcVars, mainVars, benchVars>>
nonRpcVars ==
    <<simVars, genVars, runVars, p95Vars, mainVars, benchVars>>
nonMainVars ==
    <<simVars, genVars, runVars, p95Vars, rpcVars, benchVars>>
nonBenchVars == <<simVars, genVars, runVars, p95Vars, rpcVars, mainVars>>

(***************************************************************************)
(* Generic helpers over sequences of integers: Python's sum, max, sorted.  *)
(***************************************************************************)
RECURSIVE SumOf(_)
SumOf(s) == IF s = <<>> THEN 0 ELSE Head(s) + SumOf(Tail(s))

RECURSIVE MaxOf(_)
MaxOf(s) ==
    IF Len(s) = 1 THEN s[1]
    ELSE LET m == MaxOf(Tail(s)) IN IF Head(s) >= m THEN Head(s) ELSE m

Repeat(x, k) == [i \in 1..k |-> x]

RECURSIVE InsertDesc(_, _)
InsertDesc(x, s) ==
    IF s = <<>> THEN <<x>>
    ELSE IF x > Head(s) THEN <<x>> \o s
    ELSE <<Head(s)>> \o InsertDesc(x, Tail(s))

RECURSIVE SortedDesc(_)
SortedDesc(s) ==
    IF s = <<>> THEN <<>>
    ELSE InsertDesc(Head(s), SortedDesc(Tail(s)))

(***************************************************************************)
(* simulate_block_time, piece by piece.                                    *)
(***************************************************************************)
\* variant: the comparison with chunk_size off by one
ShouldChunk_offByOne(t, c, w) == t >= c /\ w > 1
\* should_chunk = targets > chunk_size and workers > 1
ShouldChunk(t, c, w) == t > c /\ w > 1

\* variant: floor division in place of math.ceil
CeilDiv_floor(t, c) ==
    IF c > 0 THEN t \div c ELSE -((t + (-c) - 1) \div (-c))
\* math.ceil(t / c) for c # 0 (exact for the magnitudes of the model)
CeilDiv(t, c) ==
    IF c > 0 THEN (t + c - 1) \div c ELSE -(t \div (-c))

NChunks(t, c, w) == IF ShouldChunk(t, c, w) THEN CeilDiv(t, c) ELSE 1

\* variant: the last chunk is a full chunk too
ChunkTargets_fullLast(t, c, w) ==
    IF ShouldChunk(t, c, w) THEN Repeat(c, NChunks(t, c, w)) ELSE <<t>>
\* [chunk_size] * (n_chunks - 1) + [targets - chunk_size * (n_chunks - 1)]
ChunkTargets(t, c, w) ==
    IF ShouldChunk(t, c, w)
    THEN LET n == NChunks(t, c, w)
         IN  Repeat(c, n - 1) \o <<t - c * (n - 1)>>
    ELSE <<t>>

\* variant: the overhead subtracted
ChunkCost_signSlip(ct) == t_per_target_ms * ct - t_chunk_overhead_ms
\* t_chunk_overhead_ms + t_per_target_ms * ct
ChunkCost(ct) == t_chunk_overhead_ms + t_per_target_ms * ct

ChunkCosts(cts) == [i \in 1..Len(cts) |-> ChunkCost(cts[i])]

\* variant: always the first worker
MinIdx_first(ls) == 1
\* variant: the last of the least loaded workers
MinIdx_last(ls) ==
    CHOOSE i \in 1..Len(ls) :
        /\ \A j \in 1..Len(ls) : ls[i] <= ls[j]
        /\ \A j \in (i + 1)..Len(ls) : ls[j] > ls[i]
\* variant: the first of the most loaded workers
MinIdx_mostLoaded(ls) ==
    CHOOSE i \in 1..Len(ls) :
        /\ \A j \in 1..Len(ls) : ls[i] >= ls[j]
        /\ \A j \in 1..(i - 1) : ls[j] < ls[i]
\* min(range(workers), key=lambda j: loads[j]): the first index of a least
\* load (1-based here).  Defined for Len(ls) >= 1.
MinIdx(ls) ==
    CHOOSE i \in 1..Len(ls) :
        /\ \A j \in 1..Len(ls) : ls[i] <= ls[j]
        /\ \A j \in 1..(i-1) : ls[j] > ls[i]

\* variant: the cost replaces the load
AssignOne_overwrite(ls, cost) == [ls EXCEPT ![MinIdx(ls)] = cost]
\* loads[min_idx] += cost
AssignOne(ls, cost) == [ls EXCEPT ![MinIdx(ls)] = @ + cost]

\* the whole loop "for cost in sorted(chunk_costs, reverse=True)"
RECURSIVE Assign(_, _)
Assign(ls, costs) ==
    IF costs = <<>> THEN ls
    ELSE Assign(AssignOne(ls, Head(costs)), Tail(costs))

\* utilization = avg_load / max(loads) if max(loads) > 0 else 1.0
\* with avg_load = sum(loads) / workers, as <<numerator, denominator>>
Utilization(ls, w) ==
    IF MaxOf(ls) > 0 THEN <<SumOf(ls), w * MaxOf(ls)>> ELSE <<1, 1>>

\* the returned dict
SimResult(t, c, w, n, sc, ls) ==
    [targets |-> t,
     chunk_size |-> c,
     n_chunks |-> n,
     wall_time_ms |-> MaxOf(ls) + t_fixed_ms,
     utilization |-> Utilization(ls, w),
     max_load_ms |-> MaxOf(ls),
     overhead_ms |-> n * t_chunk_overhead_ms,
     chunking_triggered |-> sc]

NoResult == [targets |-> -1]

(***************************************************************************)
(* simulate_block_time as a process: one call on arbitrary arguments.      *)
(***************************************************************************)
SimInit ==
    /\ targets \in 0..MaxTargets
    /\ chunk_size \in (-1)..MaxChunkSize
    /\ workers \in (-1)..MaxWorkers
    /\ simPc = "start"
    /\ should_chunk = FALSE
    /\ n_chunks = 0
    /\ chunk_targets = <<>>
    /\ chunk_costs = <<>>
    /\ pending = <<>>
    /\ loads = <<>>
    /\ chunk_owner = <<>>
    /\ result = NoResult
    /\ simErr = ""

\* math.ceil(targets / chunk_size) with chunk_size = 0
SimDivZero ==
    /\ simPc = "start"
    /\ ShouldChunk(targets, chunk_size, workers)
    /\ chunk_size = 0
    /\ simPc' = "raised"
    /\ simErr' = "ZeroDivisionError"
    /\ should_chunk' = TRUE
    /\ UNCHANGED <<targets, chunk_size, workers, n_chunks, chunk_targets,
                   chunk_costs, pending, loads, chunk_owner, result>>
    /\ UNCHANGED nonSimVars

\* from the chunking decision to the start of the assignment loop
SimPartition ==
    /\ simPc = "start"
    /\ ~(ShouldChunk(targets, chunk_size, workers) /\ chunk_size = 0)
    /\ should_chunk' = ShouldChunk(targets, chunk_size, workers)
    /\ n_chunks' = NChunks(targets, chunk_size, workers)
    /\ chunk_targets' = ChunkTargets(targets, chunk_size, workers)
    /\ chunk_costs' = ChunkCosts(chunk_targets')
    /\ loads' = Repeat(0, workers)
    /\ pending' = SortedDesc(chunk_costs')
    /\ simPc' = "assign"
    /\ UNCHANGED <<targets, chunk_size, workers, chunk_owner, result, simErr>>
    /\ UNCHANGED nonSimVars

\* one iteration of the assignment loop
SimAssign ==
    /\ simPc = "assign"
    /\ pending # <<>>
    /\ Len(loads) >= 1
    /\ chunk_owner' = Append(chunk_owner, MinIdx(loads))
    /\ loads' = AssignOne(loads, Head(pending))
    /\ pending' = Tail(pending)
    /\ UNCHANGED <<targets, chunk_size, workers, simPc, should_chunk, n_chunks,
                   chunk_targets, chunk_costs, result, simErr>>
    /\ UNCHANGED nonSimVars

\* min() over an empty range(workers)
SimNoWorker ==
    /\ simPc = "assign"
    /\ pending # <<>>
    /\ Len(loads) = 0
    /\ simPc' = "raised"
    /\ simErr' = "ValueError"
    /\ UNCHANGED <<targets, chunk_size, workers, should_chunk, n_chunks,
                   chunk_targets, chunk_costs, pending, loads, chunk_owner,
                   result>>
    /\ UNCHANGED nonSimVars

\* after the loop: wall time, utilization and the returned dict
SimFinish ==
    /\ simPc = "assign"
    /\ pending = <<>>
    /\ result' = SimResult(targets, chunk_size, workers, n_chunks,
                           should_chunk, loads)
    /\ simPc' = "done"
    /\ UNCHANGED <<targets, chunk_size, workers, should_chunk, n_chunks,
                   chunk_targets, chunk_costs, pending, loads, chunk_owner,
                   simErr>>
    /\ UNCHANGED nonSimVars

(***************************************************************************)
(* The workload model: TxProfile, PROFILES, sample_tx, generate_block.     *)
(* A weight is in 1/1000.  rng.gauss(mean, std) can return any real; the   *)
(* model draws mean + k * std / 2 for k in a small set of deviations and   *)
(* keeps the draw as the numerator over 2, which int() then truncates      *)
(* toward zero.                                                            *)
(***************************************************************************)
PROFILES ==
    { [name |-> "simple_transfer", gas_mean |-> 21000, gas_std |-> 0,
       accounts_mean |-> 2, accounts_std |-> 0,
       slots_mean |-> 0, slots_std |-> 0, weight |-> 400],
      [name |-> "erc20_transfer", gas_mean |-> 65000, gas_std |-> 10000,
       accounts_mean |-> 3, accounts_std |-> 1,
       slots_mean |-> 4, slots_std |-> 2, weight |-> 300],
      [name |-> "dex_swap", gas_mean |-> 180000, gas_std |-> 60000,
       accounts_mean |-> 5, accounts_std |-> 2,
       slots_mean |-> 20, slots_std |-> 10, weight |-> 150],
      [name |-> "nft_mint", gas_mean |-> 120000, gas_std |-> 30000,
       accounts_mean |-> 3, accounts_std |-> 1,
       slots_mean |-> 6, slots_std |-> 3, weight |-> 100],
      [name |-> "complex_defi", gas_mean |-> 350000, gas_std |-> 100000,
       accounts_mean |-> 8, accounts_std |-> 3,
       slots_mean |-> 40, slots_std |-> 15, weight |-> 50] }

\* deviations of a gauss draw, in half standard deviations
GasDeviations == {-10, 0}
TouchDeviations == {-5, 1}

Max2(a, b) == IF a >= b THEN a ELSE b

\* int(x) for x = num / den, den > 0: truncation toward zero
IntTrunc(num, den) ==
    IF num >= 0 THEN num \div den ELSE -((-num) \div den)

\* int(rng.gauss(mean, std)) for the draw mean + k * std / 2
GaussInt(mean, std, k) == IntTrunc(2 * mean + k * std, 2)

\* sample_tx; kg, ka, ks are the deviations of its three gauss draws
SampleTx(profile, kg, ka, ks) ==
    LET gas == Max2(21000, GaussInt(profile.gas_mean, profile.gas_std, kg))
        accounts ==
            Max2(1, GaussInt(profile.accounts_mean, profile.accounts_std, ka))
        slots == Max2(0, GaussInt(profile.slots_mean, profile.slots_std, ks))
    IN  [type |-> profile.name,
         gas |-> gas,
         accounts |-> accounts,
         slots |-> slots,
         targets |-> accounts + slots]

\* the transactions one iteration of the loop can draw: rng.choices picks a
\* profile of positive weight, sample_tx samples it
Samples(ps) ==
    { SampleTx(p, kg, kt, kt) :
        p \in {q \in ps : q.weight > 0},
        kg \in GasDeviations, kt \in TouchDeviations }

\* variant: the test leaves out the transaction's own gas
Overflows_noAdd(gu, g, limit) == gu > limit
\* if gas_used + tx["gas"] > gas_limit: break
Overflows(gu, g, limit) == gu + g > limit

\* variant: no floor at 0.5
DedupFactor_noFloor(n) == 1000 - n * 2
\* dedup_factor = max(0.5, 1.0 - len(txs) * 0.002), in 1/1000
DedupFactor(n) == Max2(500, 1000 - n * 2)

\* int(total * dedup_factor).  The float product of an integer and a factor
\* that is no binary fraction can fall just below an exact integer product
\* and truncate to one less (int(500 * 0.934) = 466), so both are outcomes.
IntOfProduct(total, f) ==
    LET p == total * f
    IN  IF p > 0 /\ p % 1000 = 0 /\ f \notin {500, 1000}
        THEN {p \div 1000 - 1, p \div 1000}
        ELSE {p \div 1000}

\* sum(tx["gas"] for tx in ts), by halves
RECURSIVE SumGas(_)
SumGas(ts) ==
    IF Len(ts) = 0 THEN 0
    ELSE IF Len(ts) = 1 THEN ts[1].gas
    ELSE LET h == Len(ts) \div 2
         IN  SumGas(SubSeq(ts, 1, h)) + SumGas(SubSeq(ts, h + 1, Len(ts)))

\* sum(tx["accounts"] + tx["slots"] for tx in ts), by halves
RECURSIVE SumTouched(_)
SumTouched(ts) ==
    IF Len(ts) = 0 THEN 0
    ELSE IF Len(ts) = 1 THEN ts[1].accounts + ts[1].slots
    ELSE LET h == Len(ts) \div 2
         IN  SumTouched(SubSeq(ts, 1, h))
                + SumTouched(SubSeq(ts, h + 1, Len(ts)))

NoBlock == [tx_count |-> -1]

GenInit ==
    /\ gas_limit \in {GasStep * k : k \in 0..MaxGasSteps}
    /\ gas_used = 0
    /\ txs = <<>>
    /\ total_accounts = 0
    /\ total_slots = 0
    /\ sampled = <<>>
    /\ profiles = PROFILES
    /\ dedup_factor = 0
    /\ genPc = "loop"
    /\ block = NoBlock

\* a loop iteration whose transaction fits: it is appended
GenAccept ==
    /\ genPc = "loop"
    /\ gas_used < gas_limit
    /\ \E tx \in Samples(profiles) :
        /\ ~Overflows(gas_used, tx.gas, gas_limit)
        /\ sampled' = Append(sampled, tx)
        /\ txs' = Append(txs, tx)
        /\ gas_used' = gas_used + tx.gas
        /\ total_accounts' = total_accounts + tx.accounts
        /\ total_slots' = total_slots + tx.slots
    /\ UNCHANGED <<gas_limit, profiles, dedup_factor, genPc, block>>
    /\ UNCHANGED nonGenVars

\* a loop iteration whose transaction would overflow the limit: break
GenBreak ==
    /\ genPc = "loop"
    /\ gas_used < gas_limit
    /\ \E tx \in Samples(profiles) :
        /\ Overflows(gas_used, tx.gas, gas_limit)
        /\ sampled' = Append(sampled, tx)
    /\ genPc' = "after"
    /\ UNCHANGED <<gas_limit, profiles, gas_used, txs, total_accounts,
                   total_slots, dedup_factor, block>>
    /\ UNCHANGED nonGenVars

\* after the loop (left by break or by its condition): the deduplication
\* discount and the returned dict
GenReturn ==
    /\ \/ genPc = "after"
       \/ genPc = "loop" /\ ~(gas_used < gas_limit)
    /\ dedup_factor' = DedupFactor(Len(txs))
    /\ \E unique_accounts \in IntOfProduct(total_accounts, dedup_factor'),
          unique_slots \in IntOfProduct(total_slots, dedup_factor') :
        block' = [gas_used |-> gas_used,
                  tx_count |-> Len(txs),
                  total_accounts |-> unique_accounts,
                  total_slots |-> unique_slots,
                  total_targets |-> unique_accounts + unique_slots,
                  txs |-> txs]
    /\ genPc' = "done"
    /\ UNCHANGED <<gas_limit, profiles, gas_used, txs, total_accounts,
                   total_slots, sampled>>
    /\ UNCHANGED nonGenVars

\* generate_block is not running
GenIdle ==
    /\ gas_limit = 0
    /\ profiles = {}
    /\ gas_used = 0
    /\ txs = <<>>
    /\ total_accounts = 0
    /\ total_slots = 0
    /\ sampled = <<>>
    /\ dedup_factor = 0
    /\ genPc = "idle"
    /\ block = NoBlock

\* simulate_block_time is not running
SimIdle ==
    /\ targets = 0
    /\ chunk_size = 1
    /\ workers = 1
    /\ simPc = "idle"
    /\ should_chunk = FALSE
    /\ n_chunks = 0
    /\ chunk_targets = <<>>
    /\ chunk_costs = <<>>
    /\ pending = <<>>
    /\ loads = <<>>
    /\ chunk_owner = <<>>
    /\ result = NoResult
    /\ simErr = ""

(***************************************************************************)
(* simulate_block_time as a function, as run_analysis calls it: the        *)
(* exception it raises, or its returned dict.                              *)
(***************************************************************************)
\* variant: chunking gated by the threshold as well
SimulateBlockTime_gated(t, c, w, max_targets_for_chunking) ==
    LET sc == t > max_targets_for_chunking /\ ShouldChunk(t, c, w)
    IN  IF sc /\ c = 0 THEN [err |-> "ZeroDivisionError"]
        ELSE IF w < 1 THEN [err |-> "ValueError"]
        ELSE LET n == IF sc THEN NChunks(t, c, w) ELSE 1
                 costs ==
                     ChunkCosts(IF sc THEN ChunkTargets(t, c, w) ELSE <<t>>)
                 ls == Assign(Repeat(0, w), SortedDesc(costs))
             IN  [err |-> "", value |-> SimResult(t, c, w, n, sc, ls)]
SimulateBlockTime(t, c, w, max_targets_for_chunking) ==
    IF ShouldChunk(t, c, w) /\ c = 0 THEN [err |-> "ZeroDivisionError"]
    ELSE IF w < 1 THEN [err |-> "ValueError"]
    ELSE LET sc == ShouldChunk(t, c, w)
             n == NChunks(t, c, w)
             costs == ChunkCosts(ChunkTargets(t, c, w))
             ls == Assign(Repeat(0, w), SortedDesc(costs))
         IN  [err |-> "", value |-> SimResult(t, c, w, n, sc, ls)]

(***************************************************************************)
(* run_analysis.  A mean is kept as <<sum, count>>, a percentage as        *)
(* <<count, total>>, the mean utilization as the list of utilizations.     *)
(***************************************************************************)
chunk_sizes == <<10, 15, 20, 30, 40, 50, 60, 80, 100, 120, 150, 200, 300>>
thresholds == <<50, 100, 150, 200, 300, 500>>
gas_bins == <<0, 1000000, 2000000, 5000000, 10000000, 15000000, 20000000,
              30000000>>
THRESHOLD_SWEEP_CHUNK_SIZE == 60

RECURSIVE InsertAsc(_, _)
InsertAsc(x, s) ==
    IF s = <<>> THEN <<x>>
    ELSE IF x < Head(s) THEN <<x>> \o s
    ELSE <<Head(s)>> \o InsertAsc(x, Tail(s))

\* sorted(s)
RECURSIVE SortedAsc(_)
SortedAsc(s) ==
    IF s = <<>> THEN <<>>
    ELSE InsertAsc(Head(s), SortedAsc(Tail(s)))

\* int(n * 0.95), a 0-based index
P95Index(n) == (n * 95) \div 100

\* variant: the index applied to the unsorted series
P95_unsorted(times) == times[P95Index(Len(times)) + 1]
\* times_sorted[int(len(times_sorted) * 0.95)]
P95(times) == SortedAsc(times)[P95Index(Len(times)) + 1]

\* variant: the statistics skipped for an empty list
StatsRaise_guarded(bs) == ""
\* the block statistics (min, max, mean of gas and targets): the exception
\* they raise; min() of an empty list raises ValueError
StatsRaise(bs) == IF bs = <<>> THEN "ValueError" ELSE ""

\* the binned statistics divide by the number of in-bin blocks of positive
\* gas: ZeroDivisionError when a bin holds blocks and none has gas_used > 0
BinsRaise(bs) ==
    \E i \in 1..(Len(gas_bins) - 1) :
        LET in_bin == {k \in 1..Len(bs) :
                          /\ gas_bins[i] <= bs[k].gas_used
                          /\ bs[k].gas_used < gas_bins[i + 1]}
        IN  /\ in_bin # {}
            /\ \A k \in in_bin : ~(bs[k].gas_used > 0)

\* the results of simulate_block_time over the blocks, in order
SimAll(bs, cs, w, thr) ==
    [k \in 1..Len(bs) |-> SimulateBlockTime(bs[k].total_targets, cs, w, thr)]

AnyRaises(rs) == \E k \in 1..Len(rs) : rs[k].err # ""

FirstRaise(rs) ==
    rs[CHOOSE k \in 1..Len(rs) :
          rs[k].err # "" /\ \A j \in 1..(k - 1) : rs[j].err = ""].err

\* one row of sweep_results, from the results rs of candidate cs
SweepRow(cs, rs) ==
    LET times == [k \in 1..Len(rs) |-> rs[k].value.wall_time_ms]
        chunks_list == [k \in 1..Len(rs) |-> rs[k].value.n_chunks]
        chunked_count ==
            Cardinality({k \in 1..Len(rs) : rs[k].value.chunking_triggered})
        utils == [k \in 1..Len(rs) |-> rs[k].value.utilization]
    IN  [chunk_size |-> cs,
         mean_time_ms |-> <<SumOf(times), Len(times)>>,
         p95_time_ms |-> P95(times),
         mean_chunks |-> <<SumOf(chunks_list), Len(chunks_list)>>,
         pct_chunked |-> <<chunked_count, Len(rs)>>,
         mean_utilization |-> utils]

\* variant: the last row of least p95
Best_last(rows) ==
    rows[CHOOSE i \in 1..Len(rows) :
            /\ \A j \in 1..Len(rows) :
                  rows[i].p95_time_ms <= rows[j].p95_time_ms
            /\ \A j \in (i + 1)..Len(rows) :
                  rows[j].p95_time_ms > rows[i].p95_time_ms]
\* min(sweep_results, key=lambda r: r["p95_time_ms"]): the first row of
\* least p95
Best(rows) ==
    rows[CHOOSE i \in 1..Len(rows) :
            /\ \A j \in 1..Len(rows) :
                  rows[i].p95_time_ms <= rows[j].p95_time_ms
            /\ \A j \in 1..(i - 1) :
                  rows[j].p95_time_ms > rows[i].p95_time_ms]

\* one printed row of the threshold sweep
ThresholdRow(threshold, rs) ==
    LET times == [k \in 1..Len(rs) |-> rs[k].value.wall_time_ms]
        chunked ==
            Cardinality({k \in 1..Len(rs) : rs[k].value.chunking_triggered})
    IN  [threshold |-> threshold,
         pct_chunked |-> <<chunked, Len(rs)>>,
         mean_time_ms |-> <<SumOf(times), Len(times)>>,
         p95_time_ms |-> P95(times)]

NoBest == [chunk_size |-> -1]

\* blocks as generate_block returns them (without their txs): the empty
\* block, 20 simple transfers, 30 ERC-20 transfers
BlockChoices ==
    { [gas_used |-> 0, tx_count |-> 0, total_accounts |-> 0,
       total_slots |-> 0, total_targets |-> 0],
      [gas_used |-> 420000, tx_count |-> 20, total_accounts |-> 38,
       total_slots |-> 0, total_targets |-> 38],
      [gas_used |-> 1950000, tx_count |-> 30, total_accounts |-> 84,
       total_slots |-> 112, total_targets |-> 196] }

RunInit ==
    /\ blocks \in UNION {[1..n -> BlockChoices] : n \in 0..MaxBlocks}
    /\ ra_workers \in 0..MaxWorkers
    /\ runPc = "start"
    /\ cs_idx = 0
    /\ sweep_results = <<>>
    /\ best = NoBest
    /\ thr_idx = 0
    /\ threshold_rows = <<>>
    /\ dir_made = FALSE
    /\ csv_files = {}
    /\ runErr = ""

\* os.makedirs, then the block statistics raise
RunStatsRaise ==
    /\ runPc = "start"
    /\ StatsRaise(blocks) # ""
    /\ dir_made' = TRUE
    /\ runErr' = StatsRaise(blocks)
    /\ runPc' = "raised"
    /\ UNCHANGED <<blocks, ra_workers, cs_idx, sweep_results, best, thr_idx,
                   threshold_rows, csv_files>>
    /\ UNCHANGED nonRunVars

\* os.makedirs, the block statistics, then the binned statistics raise
RunBinsRaise ==
    /\ runPc = "start"
    /\ StatsRaise(blocks) = ""
    /\ BinsRaise(blocks)
    /\ dir_made' = TRUE
    /\ runErr' = "ZeroDivisionError"
    /\ runPc' = "raised"
    /\ UNCHANGED <<blocks, ra_workers, cs_idx, sweep_results, best, thr_idx,
                   threshold_rows, csv_files>>
    /\ UNCHANGED nonRunVars

\* os.makedirs and both statistics sections, up to the chunk size sweep
RunStats ==
    /\ runPc = "start"
    /\ StatsRaise(blocks) = ""
    /\ ~BinsRaise(blocks)
    /\ dir_made' = TRUE
    /\ sweep_results' = <<>>
    /\ cs_idx' = 1
    /\ runPc' = "sweep"
    /\ UNCHANGED <<blocks, ra_workers, best, thr_idx, threshold_rows,
                   csv_files, runErr>>
    /\ UNCHANGED nonRunVars

\* one candidate of the chunk size sweep: its row is appended.  (blocks is
\* not empty here: the statistics raise on an empty list.)
RunSweepRow ==
    /\ runPc = "sweep"
    /\ cs_idx <= Len(chunk_sizes)
    /\ blocks # <<>>
    /\ LET rs == SimAll(blocks, chunk_sizes[cs_idx], ra_workers,
                        DEFAULT_MAX_TARGETS_FOR_CHUNKING)
       IN  /\ ~AnyRaises(rs)
           /\ sweep_results' =
                 Append(sweep_results, SweepRow(chunk_sizes[cs_idx], rs))
    /\ cs_idx' = cs_idx + 1
    /\ UNCHANGED <<blocks, ra_workers, runPc, best, thr_idx, threshold_rows,
                   dir_made, csv_files, runErr>>
    /\ UNCHANGED nonRunVars

\* one candidate of the chunk size sweep: simulate_block_time raises
RunSweepRaise ==
    /\ runPc = "sweep"
    /\ cs_idx <= Len(chunk_sizes)
    /\ blocks # <<>>
    /\ LET rs == SimAll(blocks, chunk_sizes[cs_idx], ra_workers,
                        DEFAULT_MAX_TARGETS_FOR_CHUNKING)
       IN  /\ AnyRaises(rs)
           /\ runErr' = FirstRaise(rs)
    /\ runPc' = "raised"
    /\ UNCHANGED <<blocks, ra_workers, cs_idx, sweep_results, best, thr_idx,
                   threshold_rows, dir_made, csv_files>>
    /\ UNCHANGED nonRunVars

\* after the sweep: the optimal chunk size
RunFindBest ==
    /\ runPc = "sweep"
    /\ cs_idx > Len(chunk_sizes)
    /\ best' = Best(sweep_results)
    /\ thr_idx' = 1
    /\ runPc' = "threshold"
    /\ UNCHANGED <<blocks, ra_workers, cs_idx, sweep_results, threshold_rows,
                   dir_made, csv_files, runErr>>
    /\ UNCHANGED nonRunVars

\* one candidate of the threshold sweep, at chunk_size = 60
RunThresholdRow ==
    /\ runPc = "threshold"
    /\ thr_idx <= Len(thresholds)
    /\ LET rs == SimAll(blocks, THRESHOLD_SWEEP_CHUNK_SIZE, ra_workers,
                        thresholds[thr_idx])
       IN  threshold_rows' =
               Append(threshold_rows, ThresholdRow(thresholds[thr_idx], rs))
    /\ thr_idx' = thr_idx + 1
    /\ UNCHANGED <<blocks, ra_workers, runPc, cs_idx, sweep_results, best,
                   dir_made, csv_files, runErr>>
    /\ UNCHANGED nonRunVars

\* both CSV files are written; the rest of run_analysis only prints
RunWriteCsv ==
    /\ runPc = "threshold"
    /\ thr_idx > Len(thresholds)
    /\ csv_files' = {"chunk_sweep_results.csv", "block_targets.csv"}
    /\ runPc' = "done"
    /\ UNCHANGED <<blocks, ra_workers, cs_idx, sweep_results, best, thr_idx,
                   threshold_rows, dir_made, runErr>>
    /\ UNCHANGED nonRunVars

\* run_analysis is not running
RunIdle ==
    /\ blocks = <<>>
    /\ ra_workers = 1
    /\ runPc = "idle"
    /\ cs_idx = 0
    /\ sweep_results = <<>>
    /\ best = NoBest
    /\ thr_idx = 0
    /\ threshold_rows = <<>>
    /\ dir_made = FALSE
    /\ csv_files = {}
    /\ runErr = ""

(***************************************************************************)
(* collect_from_rpc.  The node is the environment: every response is drawn *)
(* from a small set.  A hex quantity is its list of digits; a trace is the *)
(* list of (address, info) items of its "pre" and "post" sections in       *)
(* iteration order, info being an account object without storage, one with *)
(* storage, or null.                                                       *)
(***************************************************************************)
\* int(digits, 16)
RECURSIVE HexToInt(_)
HexToInt(digits) ==
    IF digits = <<>> THEN 0
    ELSE 16 * HexToInt(SubSeq(digits, 1, Len(digits) - 1))
            + digits[Len(digits)]

\* responses to eth_getBlockByNumber: no "result", a null one, or a block
\* with gasUsed and up to MaxBlockTxs transactions (named by their hashes)
FetchChoices ==
    { [kind |-> k, gasUsed |-> <<0>>, transactions |-> <<>>] :
        k \in {"missing", "null"} }
    \cup { [kind |-> "block",
            gasUsed |-> IF n = 0 THEN <<0>> ELSE <<5, 2, 0, 8>>,
            transactions |-> [i \in 1..n |-> i]] : n \in 0..MaxBlockTxs }

\* block = resp.json().get("result"); "if not block"
NoBlockFetched(f) == f.kind \in {"missing", "null"}

Item(a, info, slots) == [addr |-> a, info |-> info, slots |-> slots]

\* responses to debug_traceTransaction: the request raises, "result" is
\* null, there is no "result" (an error response), or a pre/post state
\* whose last choice holds a null account object
TraceChoices ==
    { [kind |-> k, items |-> <<>>] : k \in {"raises", "null", "error"} }
    \cup { [kind |-> "result", items |-> it] :
            it \in { <<Item("0xA", "storage", {"0x1"}),
                       Item("0xB", "account", {})>>,
                     <<Item("0xB", "account", {})>>,
                     <<Item("0xA", "storage", {"0x1"}),
                       Item("0xB", "null", {})>> } }

\* the loops over trace[section].items(): total_accounts.add(addr), then
\* "storage" in info raises TypeError on a null info, else the slots are
\* added.  Gives the two sets and whether an exception ended the loops.
RECURSIVE AddItems(_, _, _)
AddItems(items, accounts, slots) ==
    IF items = <<>>
    THEN [accounts |-> accounts, slots |-> slots, raised |-> FALSE]
    ELSE LET it == Head(items)
             acc == accounts \cup {it.addr}
         IN  IF it.info = "null"
             THEN [accounts |-> acc, slots |-> slots, raised |-> TRUE]
             ELSE AddItems(Tail(items), acc,
                           IF it.info = "storage"
                           THEN slots \cup {<<it.addr, sl>> : sl \in it.slots}
                           ELSE slots)

\* the body of the try block for one transaction
TraceTx(trace, accounts, slots) ==
    IF trace.kind \in {"raises", "null"}
    THEN [accounts |-> accounts, slots |-> slots, raised |-> TRUE]
    ELSE IF trace.kind = "error"
    THEN [accounts |-> accounts, slots |-> slots, raised |-> FALSE]
    ELSE AddItems(trace.items, accounts, slots)

NoRpcBlock == [gas_used |-> 0, tx_count |-> 0, transactions |-> <<>>]

\* the command lines of main in RPC mode
RpcArgs ==
    { [rpc |-> TRUE, start_block |-> sb, blocks |-> n, workers |-> 8,
       gas_limit |-> 20000000] :
        sb \in {0, 9}, n \in (-1)..MaxRpcBlocks }

\* main calls collect_from_rpc(args.rpc, args.start_block, args.blocks)
RpcInit ==
    /\ args \in RpcArgs
    /\ mainPc = "collecting"
    /\ gas_targets = <<>>
    /\ main_blocks = <<>>
    /\ group = 0
    /\ drawn = <<>>
    /\ made_for = <<>>
    /\ start_block = args.start_block
    /\ num_blocks = args.blocks
    /\ block_num = start_block
    /\ results = <<>>
    /\ rpc_block = NoRpcBlock
    /\ tx_idx = 0
    /\ rpc_accounts = {}
    /\ rpc_slots = {}
    /\ rpcPc = "start"
    /\ fetched = <<>>
    /\ skipped = <<>>
    /\ clean_accounts = {}
    /\ clean_slots = {}
    /\ traced = 0
    /\ clean_log = <<>>

\* "import requests" fails: sys.exit(1)
RpcImportFails ==
    /\ rpcPc = "start"
    /\ rpcPc' = "exit1"
    /\ mainPc' = "exit1"
    /\ UNCHANGED <<start_block, num_blocks, block_num, results, rpc_block,
                   tx_idx, rpc_accounts, rpc_slots, fetched, skipped,
                   clean_accounts, clean_slots, traced, clean_log>>
    /\ UNCHANGED <<args, gas_targets, main_blocks, group, drawn, made_for>>
    /\ UNCHANGED <<simVars, genVars, runVars, p95Vars, benchVars>>

\* the import succeeds: results = [] and the loop over the range begins
RpcStart ==
    /\ rpcPc = "start"
    /\ rpcPc' = "fetch"
    /\ UNCHANGED <<start_block, num_blocks, block_num, results, rpc_block,
                   tx_idx, rpc_accounts, rpc_slots, fetched, skipped,
                   clean_accounts, clean_slots, traced, clean_log>>
    /\ UNCHANGED nonRpcVars

\* the block request raises: nothing catches it, main ends with a traceback
RpcFetchRaises ==
    /\ rpcPc = "fetch"
    /\ block_num < start_block + num_blocks
    /\ rpcPc' = "raised"
    /\ mainPc' = "traceback"
    /\ UNCHANGED <<start_block, num_blocks, block_num, results, rpc_block,
                   tx_idx, rpc_accounts, rpc_slots, fetched, skipped,
                   clean_accounts, clean_slots, traced, clean_log>>
    /\ UNCHANGED <<args, gas_targets, main_blocks, group, drawn, made_for>>
    /\ UNCHANGED <<simVars, genVars, runVars, p95Vars, benchVars>>

\* "if not block: continue"
RpcSkip ==
    /\ rpcPc = "fetch"
    /\ block_num < start_block + num_blocks
    /\ \E f \in FetchChoices : NoBlockFetched(f)
    /\ skipped' = Append(skipped, block_num)
    /\ block_num' = block_num + 1
    /\ UNCHANGED <<start_block, num_blocks, results, rpc_block, tx_idx,
                   rpc_accounts, rpc_slots, rpcPc, fetched, clean_accounts,
                   clean_slots, traced, clean_log>>
    /\ UNCHANGED nonRpcVars

\* a block is fetched: gas_used, tx_count, the two empty sets
RpcFetch ==
    /\ rpcPc = "fetch"
    /\ block_num < start_block + num_blocks
    /\ \E f \in FetchChoices :
        /\ ~NoBlockFetched(f)
        /\ rpc_block' = [gas_used |-> HexToInt(f.gasUsed),
                         tx_count |-> Len(f.transactions),
                         transactions |-> f.transactions]
    /\ tx_idx' = 1
    /\ rpc_accounts' = {}
    /\ rpc_slots' = {}
    /\ fetched' = Append(fetched, block_num)
    /\ clean_accounts' = {}
    /\ clean_slots' = {}
    /\ traced' = 0
    /\ rpcPc' = "txs"
    /\ UNCHANGED <<start_block, num_blocks, block_num, results, skipped,
                   clean_log>>
    /\ UNCHANGED nonRpcVars

\* one transaction whose try block ends without an exception
RpcTrace ==
    /\ rpcPc = "txs"
    /\ tx_idx <= Len(rpc_block.transactions)
    /\ \E trace \in TraceChoices :
        LET e == TraceTx(trace, rpc_accounts, rpc_slots)
            own == TraceTx(trace, {}, {})
        IN  /\ ~e.raised
            /\ rpc_accounts' = e.accounts
            /\ rpc_slots' = e.slots
            /\ clean_accounts' = clean_accounts \cup own.accounts
            /\ clean_slots' = clean_slots \cup own.slots
    /\ traced' = traced + 1
    /\ tx_idx' = tx_idx + 1
    /\ UNCHANGED <<start_block, num_blocks, block_num, results, rpc_block,
                   rpcPc, fetched, skipped, clean_log>>
    /\ UNCHANGED nonRpcVars

\* one transaction whose try block raises: the except clause prints a
\* warning and the loop goes on
RpcTraceFails ==
    /\ rpcPc = "txs"
    /\ tx_idx <= Len(rpc_block.transactions)
    /\ \E trace \in TraceChoices :
        LET e == TraceTx(trace, rpc_accounts, rpc_slots)
        IN  /\ e.raised
            /\ rpc_accounts' = e.accounts
            /\ rpc_slots' = e.slots
    /\ traced' = traced + 1
    /\ tx_idx' = tx_idx + 1
    /\ UNCHANGED <<start_block, num_blocks, block_num, results, rpc_block,
                   rpcPc, fetched, skipped, clean_accounts, clean_slots,
                   clean_log>>
    /\ UNCHANGED nonRpcVars

\* after the block's last transaction: results.append({...})
RpcAppend ==
    /\ rpcPc = "txs"
    /\ tx_idx > Len(rpc_block.transactions)
    /\ results' =
          Append(results,
                 [block_number |-> block_num,
                  gas_used |-> rpc_block.gas_used,
                  tx_count |-> rpc_block.tx_count,
                  total_accounts |-> Cardinality(rpc_accounts),
                  total_slots |-> Cardinality(rpc_slots),
                  total_targets |->
                      Cardinality(rpc_accounts) + Cardinality(rpc_slots)])
    /\ clean_log' = Append(clean_log,
                           [accounts |-> Cardinality(clean_accounts),
                            slots |-> Cardinality(clean_slots),
                            traced |-> traced])
    /\ block_num' = block_num + 1
    /\ rpcPc' = "fetch"
    /\ UNCHANGED <<start_block, num_blocks, rpc_block, tx_idx, rpc_accounts,
                   rpc_slots, fetched, skipped, clean_accounts, clean_slots,
                   traced>>
    /\ UNCHANGED nonRpcVars

\* the range is exhausted: return results
RpcReturn ==
    /\ rpcPc = "fetch"
    /\ ~(block_num < start_block + num_blocks)
    /\ rpcPc' = "returned"
    /\ UNCHANGED <<start_block, num_blocks, block_num, results, rpc_block,
                   tx_idx, rpc_accounts, rpc_slots, fetched, skipped,
                   clean_accounts, clean_slots, traced, clean_log>>
    /\ UNCHANGED nonRpcVars

\* collect_from_rpc is not running
RpcIdle ==
    /\ start_block = 0
    /\ num_blocks = 0
    /\ block_num = 0
    /\ results = <<>>
    /\ rpc_block = NoRpcBlock
    /\ tx_idx = 0
    /\ rpc_accounts = {}
    /\ rpc_slots = {}
    /\ rpcPc = "idle"
    /\ fetched = <<>>
    /\ skipped = <<>>
    /\ clean_accounts = {}
    /\ clean_slots = {}
    /\ traced = 0
    /\ clean_log = <<>>

(***************************************************************************)
(* main.                                                                   *)
(***************************************************************************)
\* variant: the list is never taken for empty
NoBlocks_never(bs) == FALSE
\* "if not blocks"
NoBlocks(bs) == Len(bs) = 0

\* RPC mode, nothing collected: the error message and sys.exit(1)
MainNoBlocks ==
    /\ mainPc = "collecting"
    /\ rpcPc = "returned"
    /\ NoBlocks(results)
    /\ main_blocks' = results
    /\ mainPc' = "exit1"
    /\ UNCHANGED <<args, gas_targets, group, drawn, made_for>>
    /\ UNCHANGED nonMainVars

\* RPC mode, blocks collected
MainCollected ==
    /\ mainPc = "collecting"
    /\ rpcPc = "returned"
    /\ ~NoBlocks(results)
    /\ main_blocks' = results
    /\ mainPc' = "have_blocks"
    /\ UNCHANGED <<args, gas_targets, group, drawn, made_for>>
    /\ UNCHANGED nonMainVars

\* the command lines of main in synthetic mode
SynArgs ==
    { [rpc |-> FALSE, start_block |-> 0, blocks |-> n, workers |-> 8,
       gas_limit |-> g] :
        n \in 0..MaxRequested,
        g \in {50000, 1000000, 5000000, 10000000, 20000000} }

SynInit ==
    /\ args \in SynArgs
    /\ mainPc = "targets"
    /\ gas_targets = <<>>
    /\ main_blocks = <<>>
    /\ group = 1
    /\ drawn = <<>>
    /\ made_for = <<>>

Min2(a, b) == IF a <= b THEN a ELSE b

\* the arguments <<lo, hi>> of rng.randint for group g of gas targets
GroupRange(g, limit) ==
    IF g = 1 THEN <<100000, Min2(2000000, limit)>>
    ELSE IF g = 2 /\ limit > 2000000 THEN <<2000000, Min2(8000000, limit)>>
    ELSE IF g = 3 /\ limit > 8000000 THEN <<8000000, Min2(15000000, limit)>>
    ELSE IF g = 4 /\ limit > 15000000 THEN <<15000000, limit>>
    ELSE <<100000, limit>>

\* rng.randint(lo, hi): an integer of lo..hi, here one of its ends; it
\* raises ValueError when lo > hi
RandInt(lo, hi) == IF lo > hi THEN {} ELSE {lo, hi}

\* quartile = args.blocks // 4
Quartile(n) == n \div 4

\* the orders rng.shuffle can leave a list in: as it was, reversed, rotated
Shuffles(xs) ==
    LET n == Len(xs)
    IN  { xs,
          [i \in 1..n |-> xs[n + 1 - i]],
          [i \in 1..n |-> xs[(i % n) + 1]] }

\* blocks generate_block(gas_target, PROFILES, rng) can return (without
\* their txs): as many simple transfers as fit, or one fewer, then a
\* transaction that overflows
SyntheticBlocks(gas_target) ==
    UNION { { [gas_used |-> 21000 * k,
               tx_count |-> k,
               total_accounts |-> ua,
               total_slots |-> 0,
               total_targets |-> ua] :
                ua \in IntOfProduct(2 * k, DedupFactor(k)) } :
            k \in {gas_target \div 21000 - 1, gas_target \div 21000} }

\* one of the four list comprehensions: quartile draws of its range
MainDrawGroup ==
    /\ mainPc = "targets"
    /\ group <= 4
    /\ LET q == Quartile(args.blocks)
           r == GroupRange(group, args.gas_limit)
       IN  \E more \in [1..q -> RandInt(r[1], r[2])] :
              drawn' = drawn \o more
    /\ group' = group + 1
    /\ UNCHANGED <<args, mainPc, gas_targets, main_blocks, made_for>>
    /\ UNCHANGED nonMainVars

\* rng.randint raises ValueError on an empty range: main ends with a
\* traceback
MainDrawRaises ==
    /\ mainPc = "targets"
    /\ group <= 4
    /\ Quartile(args.blocks) >= 1
    /\ LET r == GroupRange(group, args.gas_limit)
       IN  RandInt(r[1], r[2]) = {}
    /\ mainPc' = "traceback"
    /\ UNCHANGED <<args, gas_targets, main_blocks, group, drawn, made_for>>
    /\ UNCHANGED nonMainVars

\* rng.shuffle(gas_targets)
MainShuffle ==
    /\ mainPc = "targets"
    /\ group = 5
    /\ gas_targets' \in Shuffles(drawn)
    /\ mainPc' = "generate"
    /\ UNCHANGED <<args, main_blocks, group, drawn, made_for>>
    /\ UNCHANGED nonMainVars

\* one iteration of "for gas_target in gas_targets"
MainGenerate ==
    /\ mainPc = "generate"
    /\ Len(main_blocks) < Len(gas_targets)
    /\ LET gas_target == gas_targets[Len(main_blocks) + 1]
       IN  /\ \E b \in SyntheticBlocks(gas_target) :
                 main_blocks' = Append(main_blocks, b)
           /\ made_for' = Append(made_for, gas_target)
    /\ UNCHANGED <<args, mainPc, gas_targets, group, drawn>>
    /\ UNCHANGED nonMainVars

\* the loop over gas_targets is exhausted
MainGenerated ==
    /\ mainPc = "generate"
    /\ ~(Len(main_blocks) < Len(gas_targets))
    /\ mainPc' = "have_blocks"
    /\ UNCHANGED <<args, gas_targets, main_blocks, group, drawn, made_for>>
    /\ UNCHANGED nonMainVars

\* run_analysis(blocks, args.workers, args.output) is called
MainRunAnalysis ==
    /\ mainPc = "have_blocks"
    /\ mainPc' = "analysis"
    /\ blocks' = main_blocks
    /\ ra_workers' = args.workers
    /\ runPc' = "start"
    /\ UNCHANGED <<cs_idx, sweep_results, best, thr_idx, threshold_rows,
                   dir_made, csv_files, runErr>>
    /\ UNCHANGED <<args, gas_targets, main_blocks, group, drawn, made_for>>
    /\ UNCHANGED <<simVars, genVars, p95Vars, rpcVars, benchVars>>

\* main is not running
MainIdle ==
    /\ args = [rpc |-> FALSE, start_block |-> 0, blocks |-> 0, workers |-> 8,
               gas_limit |-> 20000000]
    /\ mainPc = "idle"
    /\ gas_targets = <<>>
    /\ main_blocks = <<>>
    /\ group = 0
    /\ drawn = <<>>
    /\ made_for = <<>>

(***************************************************************************)
(* run_tempo_bench of scripts/bench_and_kill.py.  The bench process is the *)
(* environment: when it exits and with which code is drawn.  Time is in    *)
(* whole seconds since subprocess.Popen returned.  process.returncode is   *)
(* <<>> while it is None and <<code>> once a wait or poll has reaped the   *)
(* process; a process ended by signal n has the code -n.                   *)
(***************************************************************************)
SIGINT == 2
SIGKILL == 9

\* the codes the process exits with of its own accord
ExitCodes == {0, 1}

\* variant: only positive codes count as failure
IsFailure_positive(rc) == rc # <<>> /\ rc[1] > 0
\* process.returncode not in (0, None)
IsFailure(rc) == rc # <<>> /\ rc[1] # 0

\* lines 98-100: raise CalledProcessError(process.returncode or -1, cmd), or
\* print and return; gives the next position, the exception and its code
FinalCheck(rc) ==
    IF IsFailure(rc)
    THEN [pc |-> "raised", err |-> "CalledProcessError",
          code |-> IF rc[1] # 0 THEN rc[1] ELSE -1]
    ELSE [pc |-> "returned", err |-> "", code |-> 0]

BenchInit ==
    /\ duration_seconds \in {-31} \cup (0..MaxDuration)
    /\ timeout = 0
    /\ proc_state = "none"
    /\ returncode = <<>>
    /\ elapsed = 0
    /\ benchPc = "start"
    /\ benchErr = ""
    /\ err_code = 0
    /\ signals = <<>>
    /\ timed_out = <<>>

\* subprocess.Popen raises (no cargo, no REPO_ROOT): no process is started
BenchPopenFails ==
    /\ benchPc = "start"
    /\ benchPc' = "raised"
    /\ benchErr' = "OSError"
    /\ UNCHANGED <<duration_seconds, timeout, proc_state, returncode, elapsed,
                   err_code, signals, timed_out>>
    /\ UNCHANGED nonBenchVars

\* process = subprocess.Popen(cmd, cwd=REPO_ROOT); timeout = duration_seconds + 30
BenchPopen ==
    /\ benchPc = "start"
    /\ proc_state' = "running"
    /\ timeout' = duration_seconds + BENCH_BUFFER_SECONDS
    /\ benchPc' = "wait"
    /\ UNCHANGED <<duration_seconds, returncode, elapsed, benchErr, err_code,
                   signals, timed_out>>
    /\ UNCHANGED nonBenchVars

\* process.wait(timeout=timeout) returns: the process exited within the
\* timeout; then the check of its code inside the try block
BenchWaitReturns ==
    /\ benchPc = "wait"
    /\ \E t \in 0..Max2(0, timeout), code \in ExitCodes :
        /\ elapsed' = t
        /\ returncode' = <<code>>
    /\ proc_state' = "exited"
    /\ IF IsFailure(returncode')
       THEN /\ benchPc' = "raised"
            /\ benchErr' = "CalledProcessError"
            /\ err_code' = returncode'[1]
       ELSE /\ benchPc' = "returned"
            /\ UNCHANGED <<benchErr, err_code>>
    /\ UNCHANGED <<duration_seconds, timeout, signals, timed_out>>
    /\ UNCHANGED nonBenchVars

\* process.wait(timeout=timeout) raises TimeoutExpired and
\* process.send_signal(signal.SIGINT) signals the running process
BenchSigint ==
    /\ benchPc = "wait"
    /\ elapsed' = Max2(0, timeout)
    /\ timed_out' = Append(timed_out, [timeout |-> timeout, at |-> elapsed'])
    /\ signals' = Append(signals, [sig |-> SIGINT, at |-> elapsed'])
    /\ benchPc' = "sigint_wait"
    /\ UNCHANGED <<duration_seconds, timeout, proc_state, returncode, benchErr,
                   err_code>>
    /\ UNCHANGED nonBenchVars

\* the wait raises TimeoutExpired but the process exits before send_signal,
\* whose poll then reaps it and sends nothing
BenchSigintTooLate ==
    /\ benchPc = "wait"
    /\ elapsed' = Max2(0, timeout)
    /\ timed_out' = Append(timed_out, [timeout |-> timeout, at |-> elapsed'])
    /\ \E code \in ExitCodes : returncode' = <<code>>
    /\ proc_state' = "exited"
    /\ benchPc' = "sigint_wait"
    /\ UNCHANGED <<duration_seconds, timeout, benchErr, err_code, signals>>
    /\ UNCHANGED nonBenchVars

\* process.wait(timeout=30) returns: the process was reaped already, or it
\* exits within the wait, of its own accord or ended by the SIGINT; then
\* the final check
BenchSigintWaitReturns ==
    /\ benchPc = "sigint_wait"
    /\ IF proc_state = "exited"
       THEN UNCHANGED <<returncode, elapsed>>
       ELSE \E d \in 0..SIGINT_WAIT_SECONDS, code \in ExitCodes \cup {-SIGINT} :
               /\ elapsed' = elapsed + d
               /\ returncode' = <<code>>
    /\ proc_state' = "exited"
    /\ benchPc' = FinalCheck(returncode').pc
    /\ benchErr' = FinalCheck(returncode').err
    /\ err_code' = FinalCheck(returncode').code
    /\ UNCHANGED <<duration_seconds, timeout, signals, timed_out>>
    /\ UNCHANGED nonBenchVars

\* process.wait(timeout=30) raises TimeoutExpired and process.kill()
\* signals the running process
BenchKill ==
    /\ benchPc = "sigint_wait"
    /\ proc_state = "running"
    /\ elapsed' = elapsed + SIGINT_WAIT_SECONDS
    /\ timed_out' = Append(timed_out, [timeout |-> SIGINT_WAIT_SECONDS,
                                       at |-> elapsed'])
    /\ signals' = Append(signals, [sig |-> SIGKILL, at |-> elapsed'])
    /\ benchPc' = "kill_wait"
    /\ UNCHANGED <<duration_seconds, timeout, proc_state, returncode, benchErr,
                   err_code>>
    /\ UNCHANGED nonBenchVars

\* the wait raises TimeoutExpired but the process exits before kill, whose
\* poll then reaps it and sends nothing
BenchKillTooLate ==
    /\ benchPc = "sigint_wait"
    /\ proc_state = "running"
    /\ elapsed' = elapsed + SIGINT_WAIT_SECONDS
    /\ timed_out' = Append(timed_out, [timeout |-> SIGINT_WAIT_SECONDS,
                                       at |-> elapsed'])
    /\ \E code \in ExitCodes \cup {-SIGINT} : returncode' = <<code>>
    /\ proc_state' = "exited"
    /\ benchPc' = "kill_wait"
    /\ UNCHANGED <<duration_seconds, timeout, benchErr, err_code, signals>>
    /\ UNCHANGED nonBenchVars

\* process.wait() returns: the process was reaped already, or it is ended
\* by the SIGKILL, or it had just exited when the SIGKILL arrived; then the
\* final check
BenchKillWaitReturns ==
    /\ benchPc = "kill_wait"
    /\ IF proc_state = "exited"
       THEN UNCHANGED returncode
       ELSE \E code \in ExitCodes \cup {-SIGINT, -SIGKILL} :
               returncode' = <<code>>
    /\ proc_state' = "exited"
    /\ benchPc' = FinalCheck(returncode').pc
    /\ benchErr' = FinalCheck(returncode').err
    /\ err_code' = FinalCheck(returncode').code
    /\ UNCHANGED <<duration_seconds, timeout, elapsed, signals, timed_out>>
    /\ UNCHANGED nonBenchVars

\* run_tempo_bench is not running
BenchIdle ==
    /\ duration_seconds = 0
    /\ timeout = 0
    /\ proc_state = "none"
    /\ returncode = <<>>
    /\ elapsed = 0
    /\ benchPc = "idle"
    /\ benchErr = ""
    /\ err_code = 0
    /\ signals = <<>>
    /\ timed_out = <<>>

(***************************************************************************)
(* The 95th percentile of run_analysis, applied to one wall time series.   *)
(***************************************************************************)
\* 1..n rotated left by k
Rotation(n, k) == [i \in 1..n |-> ((i - 1 + k) % n) + 1]

P95Init ==
    /\ times_in \in
          UNION {[1..n -> 1..MaxShortSeries] : n \in 1..MaxShortSeries}
          \cup {Rotation(n, k) : n \in 1..MaxLongSeries, k \in 0..MaxLongSeries}
    /\ p95_out = -1
    /\ p95Pc = "start"

\* times_sorted = sorted(times); p95 = times_sorted[int(len * 0.95)]
P95Apply ==
    /\ p95Pc = "start"
    /\ p95_out' = P95(times_in)
    /\ p95Pc' = "done"
    /\ UNCHANGED times_in
    /\ UNCHANGED nonP95Vars

\* no percentile is being computed
P95Idle ==
    /\ times_in = <<>>
    /\ p95_out = -1
    /\ p95Pc = "idle"

P95Next == P95Apply

InitP95 ==
    /\ P95Init /\ SimIdle /\ GenIdle /\ RunIdle /\ RpcIdle /\ MainIdle
    /\ BenchIdle

SpecP95 == InitP95 /\ [][P95Next]_vars

(***************************************************************************)
(* main in RPC mode: collect_from_rpc, then the exit or the call of        *)
(* run_analysis.                                                           *)
(***************************************************************************)
RpcNext ==
    \/ RpcImportFails
    \/ RpcStart
    \/ RpcFetchRaises
    \/ RpcSkip
    \/ RpcFetch
    \/ RpcTrace
    \/ RpcTraceFails
    \/ RpcAppend
    \/ RpcReturn
    \/ MainNoBlocks
    \/ MainCollected
    \/ MainRunAnalysis

InitRpc ==
    RpcInit /\ SimIdle /\ GenIdle /\ RunIdle /\ P95Idle /\ BenchIdle

SpecRpc == InitRpc /\ [][RpcNext]_vars

\* one call of run_analysis on an arbitrary block list and worker count
(***************************************************************************)
(* main in synthetic mode: the gas targets, the blocks, then the call of   *)
(* run_analysis.                                                           *)
(***************************************************************************)
SynNext ==
    \/ MainDrawGroup
    \/ MainDrawRaises
    \/ MainShuffle
    \/ MainGenerate
    \/ MainGenerated
    \/ MainRunAnalysis

InitSyn ==
    /\ SynInit /\ SimIdle /\ GenIdle /\ RunIdle /\ P95Idle /\ RpcIdle
    /\ BenchIdle

SpecSyn == InitSyn /\ [][SynNext]_vars

(***************************************************************************)
(* One call of run_tempo_bench.                                            *)
(***************************************************************************)
BenchNext ==
    \/ BenchPopenFails
    \/ BenchPopen
    \/ BenchWaitReturns
    \/ BenchSigint
    \/ BenchSigintTooLate
    \/ BenchSigintWaitReturns
    \/ BenchKill
    \/ BenchKillTooLate
    \/ BenchKillWaitReturns

InitBench ==
    /\ BenchInit /\ SimIdle /\ GenIdle /\ RunIdle /\ P95Idle /\ RpcIdle
    /\ MainIdle

SpecBench == InitBench /\ [][BenchNext]_vars

(***************************************************************************)
(* generate_block on a one-profile workload, then simulate_block_time on   *)
(* the block's total_targets as run_analysis calls it.                     *)
(***************************************************************************)
\* a workload of simple transfers only, of weight 1.0
TransfersOnly ==
    { [name |-> "simple_transfer", gas_mean |-> 21000, gas_std |-> 0,
       accounts_mean |-> 2, accounts_std |-> 0,
       slots_mean |-> 0, slots_std |-> 0, weight |-> 1000] }

ScenarioGasLimits == {100000, 500000, 1000000}

ScenarioInit ==
    /\ gas_limit \in ScenarioGasLimits
    /\ profiles = TransfersOnly
    /\ gas_used = 0
    /\ txs = <<>>
    /\ total_accounts = 0
    /\ total_slots = 0
    /\ sampled = <<>>
    /\ dedup_factor = 0
    /\ genPc = "loop"
    /\ block = NoBlock

\* simulate_block_time(b["total_targets"], chunk_size=cs, workers=workers)
\* for a candidate chunk size and a worker count of the command line
ScenarioSimulate ==
    /\ genPc = "done"
    /\ simPc = "idle"
    /\ targets' = block.total_targets
    /\ chunk_size' \in {chunk_sizes[1], chunk_sizes[Len(chunk_sizes)]}
    /\ workers' \in {0, 4}
    /\ simPc' = "start"
    /\ UNCHANGED <<should_chunk, n_chunks, chunk_targets, chunk_costs,
                   pending, loads, chunk_owner, result, simErr>>
    /\ UNCHANGED nonSimVars

ScenarioNext ==
    \/ GenAccept
    \/ GenBreak
    \/ GenReturn
    \/ ScenarioSimulate
    \/ SimPartition
    \/ SimAssign
    \/ SimNoWorker
    \/ SimFinish

InitScenario ==
    /\ ScenarioInit /\ SimIdle /\ RunIdle /\ P95Idle /\ RpcIdle /\ MainIdle
    /\ BenchIdle

SpecScenario == InitScenario /\ [][ScenarioNext]_vars

RunNext ==
    \/ RunStatsRaise
    \/ RunBinsRaise
    \/ RunStats
    \/ RunSweepRow
    \/ RunSweepRaise
    \/ RunFindBest
    \/ RunThresholdRow
    \/ RunWriteCsv

InitRun ==
    /\ RunInit /\ SimIdle /\ GenIdle /\ P95Idle /\ RpcIdle /\ MainIdle
    /\ BenchIdle

SpecRun == InitRun /\ [][RunNext]_vars

\* one call of generate_block on an arbitrary gas limit
GenNext ==
    \/ GenAccept
    \/ GenBreak
    \/ GenReturn

InitGen ==
    /\ GenInit /\ SimIdle /\ RunIdle /\ P95Idle /\ RpcIdle /\ MainIdle
    /\ BenchIdle

SpecGen == InitGen /\ [][GenNext]_vars

\* generate_block at the end of its loop on a block of n transactions of
\* the minimum gas that fill the gas limit exactly, n up to MaxTxCount
LongBlockInit ==
    /\ \E n \in 0..MaxTxCount, tx \in {t \in Samples(PROFILES) : t.gas = 21000} :
        /\ txs = Repeat(tx, n)
        /\ sampled = txs
        /\ gas_used = 21000 * n
        /\ gas_limit = 21000 * n
        /\ total_accounts = tx.accounts * n
        /\ total_slots = tx.slots * n
    /\ profiles = PROFILES
    /\ dedup_factor = 0
    /\ genPc = "loop"
    /\ block = NoBlock

LongBlockNext == GenReturn

InitDedup ==
    /\ LongBlockInit /\ SimIdle /\ RunIdle /\ P95Idle /\ RpcIdle /\ MainIdle
    /\ BenchIdle

SpecDedup == InitDedup /\ [][LongBlockNext]_vars

(***************************************************************************)
(* One call of simulate_block_time on arbitrary arguments.                 *)
(***************************************************************************)
Init ==
    /\ SimInit /\ GenIdle /\ RunIdle /\ P95Idle /\ RpcIdle /\ MainIdle
    /\ BenchIdle

Next ==
    \/ SimDivZero
    \/ SimPartition
    \/ SimAssign
    \/ SimNoWorker
    \/ SimFinish

Spec == Init /\ [][Next]_vars

(***************************************************************************)
(* Properties of simulate_block_time (specification Spec).                 *)
(***************************************************************************)
\* a valid configuration: chunk size >= 1 and worker count >= 1
ValidConfig == chunk_size >= 1 /\ workers >= 1

SimReturned == simPc = "done"

\* C1: for every t >= 0, c >= 1, w >= 1 the returned chunking_triggered is
\* true exactly when t > c and w > 1; when t <= c or w <= 1 it is false,
\* n_chunks is 1 and the single chunk holds all t targets.
C1_ChunkingDecision ==
    (SimReturned /\ ValidConfig) =>
        /\ result.chunking_triggered = (targets > chunk_size /\ workers > 1)
        /\ (targets <= chunk_size \/ workers <= 1) =>
              /\ result.chunking_triggered = FALSE
              /\ result.n_chunks = 1
              /\ chunk_targets = <<targets>>

C1_Witness ==
    /\ SimReturned /\ ValidConfig
    /\ targets > chunk_size /\ workers = 1
    /\ result.chunking_triggered = FALSE /\ result.n_chunks = 1

\* C2: for t > c >= 1 and w > 1 there are exactly ceil(t / c) chunks, every
\* chunk but the last holds c targets, the last holds t - c*(n_chunks-1),
\* which lies in 1..c, and the chunk target counts sum to t.
C2_Partition ==
    (SimReturned /\ ValidConfig /\ targets > chunk_size /\ workers > 1) =>
        LET n == result.n_chunks IN
        /\ n * chunk_size >= targets
        /\ (n - 1) * chunk_size < targets
        /\ Len(chunk_targets) = n
        /\ \A i \in 1..(n - 1) : chunk_targets[i] = chunk_size
        /\ chunk_targets[n] = targets - chunk_size * (n - 1)
        /\ chunk_targets[n] \in 1..chunk_size
        /\ SumOf(chunk_targets) = targets

C2_Witness ==
    /\ SimReturned /\ ValidConfig /\ workers > 1
    /\ result.n_chunks = 3
    /\ chunk_targets[3] < chunk_size

\* C3: a block with zero targets, under any valid configuration and the
\* default cost model, has wall_time_ms equal to the fixed per-block
\* overhead and utilization 1.0.
C3_DegenerateBlock ==
    (SimReturned /\ ValidConfig /\ targets = 0) =>
        /\ result.wall_time_ms = t_fixed_ms
        /\ result.utilization[1] = result.utilization[2]

\* C4: a configuration with chunk_size <= 0 or workers <= 0 is rejected:
\* no call with such a configuration returns a result.
C4_InvalidConfigRejected ==
    (chunk_size <= 0 \/ workers <= 0) => ~SimReturned

\* C6: for every t and valid configuration the chunk costs sum to
\* per-chunk overhead * n_chunks + per-target cost * t.
C6_CostSum ==
    (SimReturned /\ ValidConfig) =>
        SumOf(chunk_costs) =
            t_chunk_overhead_ms * result.n_chunks + t_per_target_ms * targets

C6_Witness ==
    /\ SimReturned /\ ValidConfig
    /\ result.n_chunks >= 2
    /\ targets % chunk_size = 0

\* C7: after the greedy assignment, under a valid configuration, every worker
\* load is >= 0 and the maximum load is >= the mean load (sum / workers),
\* with equality exactly when all loads are equal.
C7_MaxAtLeastMean ==
    (SimReturned /\ ValidConfig) =>
        /\ \A i \in 1..workers : loads[i] >= 0
        /\ result.max_load_ms * workers >= SumOf(loads)
        /\ (result.max_load_ms * workers = SumOf(loads))
              <=> (\A i, j \in 1..workers : loads[i] = loads[j])

C7_Witness ==
    /\ SimReturned /\ ValidConfig
    /\ workers >= 2 /\ result.n_chunks >= 2
    /\ result.max_load_ms * workers > SumOf(loads)

C17_GreedyStep ==
    [][(simPc = "assign" /\ pending' # pending) =>
          /\ pending' = Tail(pending)
          /\ \A k \in 1..Len(pending') : pending'[k] <= Head(pending)
          /\ \E i \in 1..workers :
                /\ \A j \in 1..workers : loads[i] <= loads[j]
                /\ \A j \in 1..(i - 1) : loads[j] > loads[i]
                /\ loads'[i] = loads[i] + Head(pending)
                /\ \A j \in (1..workers) \ {i} : loads'[j] = loads[j]
                /\ Len(loads') = workers
                /\ chunk_owner' = Append(chunk_owner, i)]_vars

C17_Witness ==
    /\ simPc = "assign"
    /\ workers >= 3
    /\ Len(chunk_owner) >= 2
    /\ chunk_owner[1] = 1 /\ chunk_owner[2] = 2
    /\ loads[1] > loads[2]
    /\ \E i, j \in 3..workers : i # j /\ loads[i] = 0 /\ loads[j] = 0

\* the least maximum load over all assignments of costs to the workers of
\* ls, of which the first u already hold a chunk
RECURSIVE OptFrom(_, _, _)
OptFrom(costs, ls, u) ==
    IF costs = <<>> THEN MaxOf(ls)
    ELSE LET top == IF u + 1 <= Len(ls) THEN u + 1 ELSE Len(ls)
             outcomes ==
                 { OptFrom(Tail(costs), [ls EXCEPT ![i] = @ + Head(costs)],
                           IF i > u THEN i ELSE u) : i \in 1..top }
         IN  CHOOSE m \in outcomes : \A x \in outcomes : m <= x

OptMakespan(costs, m) == OptFrom(costs, Repeat(0, m), 0)

\* C18: the greedy assignment is a 4/3-approximation: for every chunk cost
\* list simulate_block_time produces and every worker count m >= 1, the
\* maximum worker load is at most 4/3 of the least maximum load over all
\* assignments of those chunks to m workers.
C18_FourThirds ==
    (SimReturned /\ workers >= 1) =>
        3 * result.max_load_ms <= 4 * OptMakespan(chunk_costs, workers)

C18_Witness ==
    /\ SimReturned
    /\ workers >= 2
    /\ Len(chunk_costs) > workers
    /\ result.max_load_ms = OptMakespan(chunk_costs, workers)
    /\ workers * result.max_load_ms > SumOf(chunk_costs)

\* the sum of the first n costs of the sorted list that went to worker i
RECURSIVE OwnedLoad(_, _, _, _)
OwnedLoad(owner, sorted, n, i) ==
    IF n = 0 THEN 0
    ELSE OwnedLoad(owner, sorted, n - 1, i)
            + (IF owner[n] = i THEN sorted[n] ELSE 0)

\* C19: load conservation: after every iteration of the assignment loop the
\* sum of all worker loads is the sum of the costs of the chunks assigned so
\* far, and at the end every chunk went to exactly one worker, so
\* sum(loads) is the total chunk cost.
C19_LoadConservation ==
    (simPc \in {"assign", "done"} /\ workers >= 1) =>
        LET sorted == SortedDesc(chunk_costs)
            n == Len(chunk_owner)
        IN  /\ n + Len(pending) = Len(chunk_costs)
            /\ pending = SubSeq(sorted, n + 1, Len(sorted))
            /\ SumOf(loads) = SumOf(SubSeq(sorted, 1, n))
            /\ \A k \in 1..n : chunk_owner[k] \in 1..workers
            /\ \A i \in 1..workers :
                  loads[i] = OwnedLoad(chunk_owner, sorted, n, i)
            /\ simPc = "done" =>
                  /\ n = Len(chunk_costs)
                  /\ SumOf(loads) = SumOf(chunk_costs)

C19_Witness ==
    /\ simPc = "done"
    /\ workers >= 2
    /\ Len(chunk_costs) > workers
    /\ SumOf(loads) = SumOf(chunk_costs)
    /\ \E i \in 1..workers :
          Cardinality({k \in 1..Len(chunk_owner) : chunk_owner[k] = i}) >= 2

(***************************************************************************)
(* Properties of generate_block (specifications SpecGen and SpecDedup).    *)
(***************************************************************************)
\* C9: generate_block accepts a transaction only if the accumulated gas plus
\* its gas does not exceed gas_limit and stops at the first sampled
\* transaction that would overflow: gas_used is the sum of the accepted
\* transactions' gas and at most gas_limit, nothing sampled after the first
\* overflowing transaction is accepted, and a limit below every
\* transaction's gas gives the empty block.
C9_GasLimitRespected ==
    /\ gas_used = SumGas(txs)
    /\ gas_used <= gas_limit
    /\ \A i \in 1..Len(txs) : SumGas(SubSeq(txs, 1, i)) <= gas_limit
    /\ \/ sampled = txs
       \/ /\ Len(sampled) = Len(txs) + 1
          /\ SubSeq(sampled, 1, Len(txs)) = txs
          /\ gas_used + sampled[Len(sampled)].gas > gas_limit
          /\ genPc # "loop"
    /\ genPc = "done" =>
          /\ block.txs = txs
          /\ block.tx_count = Len(txs)
          /\ block.gas_used = SumGas(block.txs)
          /\ block.gas_used <= gas_limit
    /\ (genPc = "done" /\ \A tx \in Samples(profiles) : tx.gas > gas_limit) =>
          /\ block.tx_count = 0
          /\ block.gas_used = 0
          /\ block.total_targets = 0

C9_Witness ==
    /\ genPc = "done"
    /\ block.tx_count >= 2
    /\ Len(sampled) = block.tx_count + 1
    /\ block.gas_used < gas_limit

\* C10: for every block built by generate_block the deduplication factor
\* lies in [0.5, 1.0], and total_targets is at least 0 and at most the raw
\* sum of accounts + slots touched by its transactions, with equality only
\* when no discount applies (factor 1.0).
C10_DedupBounds ==
    genPc = "done" =>
        /\ dedup_factor >= 500
        /\ dedup_factor <= 1000
        /\ block.total_targets >= 0
        /\ block.total_targets <= SumTouched(block.txs)
        /\ block.total_targets = SumTouched(block.txs) => dedup_factor = 1000

C10_Witness ==
    /\ genPc = "done"
    /\ block.tx_count > 250
    /\ dedup_factor = 500
    /\ block.total_targets > 0
    /\ block.total_targets < SumTouched(block.txs)

(***************************************************************************)
(* Properties of run_analysis (specification SpecRun).                     *)
(***************************************************************************)
\* C5: run_analysis called with an empty block list stops with an error
\* before any sweep row is computed and before any CSV file is written.
C5_EmptyBlocksFatal ==
    blocks = <<>> =>
        /\ runPc \in {"start", "raised"}
        /\ runPc = "raised" => runErr = "ValueError"
        /\ cs_idx = 0
        /\ sweep_results = <<>>
        /\ threshold_rows = <<>>
        /\ csv_files = {}

C5_Witness ==
    /\ blocks = <<>>
    /\ runPc = "raised"
    /\ runErr = "ValueError"
    /\ sweep_results = <<>>
    /\ csv_files = {}

\* C12: the optimal chunk size is a candidate whose sweep summary has the
\* least 95th-percentile wall time of all candidates, and among candidates
\* that share the least value it is the first of the candidate list.
C12_OptimalChunkSize ==
    runPc \in {"threshold", "done"} =>
        /\ Len(sweep_results) = Len(chunk_sizes)
        /\ \A j \in 1..Len(chunk_sizes) :
              sweep_results[j].chunk_size = chunk_sizes[j]
        /\ \E i \in 1..Len(chunk_sizes) :
              /\ best = sweep_results[i]
              /\ \A j \in 1..Len(chunk_sizes) :
                    best.p95_time_ms <= sweep_results[j].p95_time_ms
              /\ \A j \in 1..(i - 1) :
                    best.p95_time_ms < sweep_results[j].p95_time_ms

C12_Witness ==
    /\ runPc = "done"
    /\ Len(blocks) = MaxBlocks
    /\ blocks[1].total_targets > 0
    /\ best = sweep_results[1]
    /\ \E j \in 2..Len(chunk_sizes) :
          sweep_results[j].p95_time_ms = best.p95_time_ms

\* C13: the chunking-activation threshold never influences the result: two
\* calls of simulate_block_time that differ only in
\* max_targets_for_chunking return the same, so the threshold sweep reports
\* the same percent-chunked, mean and p95 wall time for every threshold.
C13_ThresholdIgnored ==
    runPc = "done" =>
        /\ Len(threshold_rows) = Len(thresholds)
        /\ \A i, j \in 1..Len(thresholds) :
              /\ threshold_rows[i].pct_chunked = threshold_rows[j].pct_chunked
              /\ threshold_rows[i].mean_time_ms = threshold_rows[j].mean_time_ms
              /\ threshold_rows[i].p95_time_ms = threshold_rows[j].p95_time_ms
        /\ \A k \in 1..Len(blocks), c \in 1..Len(chunk_sizes),
              i \in 1..Len(thresholds) :
              SimulateBlockTime(blocks[k].total_targets, chunk_sizes[c],
                                ra_workers, thresholds[i])
                = SimulateBlockTime(blocks[k].total_targets, chunk_sizes[c],
                                    ra_workers,
                                    DEFAULT_MAX_TARGETS_FOR_CHUNKING)

C13_Witness ==
    /\ runPc = "done"
    /\ Len(threshold_rows) = Len(thresholds)
    /\ threshold_rows[1].pct_chunked[1] >= 1
    /\ \E k \in 1..Len(blocks) :
          /\ blocks[k].total_targets > thresholds[1]
          /\ blocks[k].total_targets < thresholds[Len(thresholds)]

(***************************************************************************)
(* Properties of the 95th percentile (specification SpecP95).              *)
(***************************************************************************)
\* C11: for every non-empty series of n wall times the 95th percentile is
\* the element at index floor(0.95 * n) of the ascending-sorted series; the
\* index is within 0..n-1, for n = 1 it is the single value and for
\* [1,2,3,4,5] it is 5.  (The element at 0-based index i of the sorted
\* series is the value v with at most i elements below v and more than i
\* elements at most v.)
C11_P95NearestRank ==
    p95Pc = "done" =>
        LET n == Len(times_in)
            i == CHOOSE k \in 0..n : 100 * k <= 95 * n /\ 95 * n < 100 * (k + 1)
            below == Cardinality({k \in 1..n : times_in[k] < p95_out})
            atMost == Cardinality({k \in 1..n : times_in[k] <= p95_out})
        IN  /\ i \in 0..(n - 1)
            /\ \E k \in 1..n : times_in[k] = p95_out
            /\ below <= i /\ i < atMost
            /\ n = 1 => p95_out = times_in[1]
            /\ times_in = <<1, 2, 3, 4, 5>> => p95_out = 5

C11_Witness ==
    /\ p95Pc = "done"
    /\ Len(times_in) = 21
    /\ times_in[1] = 21
    /\ p95_out = 20

(***************************************************************************)
(* Properties of collect_from_rpc and of main in RPC mode (specification   *)
(* SpecRpc).                                                               *)
(***************************************************************************)
\* C14: a trace failure for one transaction is non-fatal and isolated: the
\* failing transaction contributes nothing to the block's account and
\* (address, slot) sets, every other transaction of the block is still
\* processed, and the block record is appended with the counts of the
\* non-failing transactions.
C14_TraceFailureIsolated ==
    /\ rpcPc = "txs" =>
          /\ traced = tx_idx - 1
          /\ rpc_accounts = clean_accounts
          /\ rpc_slots = clean_slots
    /\ Len(clean_log) = Len(results)
    /\ \A k \in 1..Len(results) :
          /\ clean_log[k].traced = results[k].tx_count
          /\ results[k].total_accounts = clean_log[k].accounts
          /\ results[k].total_slots = clean_log[k].slots
          /\ results[k].total_targets =
                clean_log[k].accounts + clean_log[k].slots

\* C15: a block number whose fetch gives a missing or null block is skipped
\* and collection goes on with the next number, so the result holds exactly
\* one record per fetched block in ascending block-number order; if the
\* whole range gives no record, main exits with an error without running
\* the analysis.
C15_MissingBlocksSkipped ==
    /\ Len(results) <= Len(fetched)
    /\ \A k \in 1..Len(results) : results[k].block_number = fetched[k]
    /\ \A k \in 1..(Len(results) - 1) :
          results[k].block_number < results[k + 1].block_number
    /\ \A k \in 1..Len(skipped) :
          \A j \in 1..Len(results) : results[j].block_number # skipped[k]
    /\ rpcPc = "returned" =>
          /\ Len(results) = Len(fetched)
          /\ {fetched[k] : k \in 1..Len(fetched)}
                \cup {skipped[k] : k \in 1..Len(skipped)}
                = start_block..(start_block + num_blocks - 1)
    /\ (rpcPc = "returned" /\ results = <<>>) =>
          /\ runPc = "idle"
          /\ mainPc \in {"collecting", "exit1"}
    /\ runPc # "idle" => (results # <<>> /\ blocks = results)

C15_Witness ==
    /\ mainPc = "analysis"
    /\ runPc = "start"
    /\ Len(skipped) >= 1
    /\ Len(results) >= 1
    /\ skipped[1] < results[1].block_number

(***************************************************************************)
(* Properties of the one-profile scenario (specification SpecScenario).    *)
(***************************************************************************)
\* C16: with gas limit 1,000,000 and the single profile (gas 21000 std 0,
\* accounts 2 std 0, slots 0 std 0, weight 1.0) generate_block gives a block
\* of floor(1,000,000 / 21,000) = 47 transactions whose total_targets is
\* 2 x 47 x dedup_factor truncated to an integer, and simulate_block_time on
\* it with chunk_size = 10 and workers = 4 chunks, with
\* n_chunks = ceil(total_targets / 10).
C16_EndToEnd ==
    (gas_limit = 1000000 /\ profiles = TransfersOnly) =>
        /\ genPc = "done" =>
              /\ block.tx_count = 47
              /\ block.tx_count = 1000000 \div 21000
              /\ dedup_factor = 1000 - 2 * 47
              /\ block.total_targets = (2 * 47 * dedup_factor) \div 1000
        /\ (simPc = "done" /\ chunk_size = 10 /\ workers = 4) =>
              /\ result.chunking_triggered
              /\ 10 * result.n_chunks >= block.total_targets
              /\ 10 * (result.n_chunks - 1) < block.total_targets
              /\ Len(chunk_costs) = result.n_chunks

C16_Witness ==
    /\ gas_limit = 1000000
    /\ profiles = TransfersOnly
    /\ simPc = "done"
    /\ chunk_size = 10
    /\ workers = 4
    /\ block.tx_count = 47
    /\ block.total_targets = 85
    /\ result.n_chunks = 9

(***************************************************************************)
(* Properties of main in synthetic mode (specification SpecSyn).           *)
(***************************************************************************)
\* the number of entries of xs equal to v
CountOf(xs, v) == Cardinality({i \in 1..Len(xs) : xs[i] = v})

\* C20: in synthetic mode main generates exactly 4 x floor(N / 4) blocks for
\* a requested block count N: each of the four groups of gas targets has
\* floor(N / 4) entries, every gas target lies in [100000, gas_limit], one
\* block is generated per gas target in shuffled order, and for N < 4 the
\* block list passed to run_analysis is empty.
C20_SyntheticBlockCount ==
    LET N == args.blocks
        q == N \div 4
    IN  /\ mainPc # "traceback"
        /\ mainPc = "targets" => Len(drawn) = (group - 1) * q
        /\ mainPc \in {"generate", "have_blocks", "analysis"} =>
              /\ Len(gas_targets) = 4 * q
              /\ \A i \in 1..Len(gas_targets) :
                    /\ gas_targets[i] >= 100000
                    /\ gas_targets[i] <= args.gas_limit
                    /\ CountOf(gas_targets, gas_targets[i])
                          = CountOf(drawn, gas_targets[i])
        /\ mainPc \in {"have_blocks", "analysis"} =>
              /\ Len(main_blocks) = 4 * q
              /\ made_for = gas_targets
        /\ mainPc = "analysis" =>
              /\ blocks = main_blocks
              /\ N < 4 => blocks = <<>>

(***************************************************************************)
(* Properties of run_tempo_bench (specification SpecBench).                *)
(***************************************************************************)
\* C21: shutdown escalation: SIGINT is sent to the bench process only after
\* the first wait, of duration_seconds + 30, has timed out; kill is issued
\* only after SIGINT was sent and a further 30-second wait has timed out
\* too; whenever the function has returned or raised the process is no
\* longer running; the function returns normally only if the exit code is
\* 0 and raises CalledProcessError, with that code, for any other.
C21_ShutdownEscalation ==
    /\ Len(signals) <= 2
    /\ \A i \in 1..Len(signals) :
          signals[i].sig = 2 =>
              /\ i = 1
              /\ Len(timed_out) >= 1
              /\ timed_out[1].timeout = duration_seconds + 30
              /\ timed_out[1].at <= signals[1].at
              /\ signals[1].at >= duration_seconds + 30
    /\ \A i \in 1..Len(signals) :
          signals[i].sig = 9 =>
              /\ i = 2
              /\ signals[1].sig = 2
              /\ Len(timed_out) = 2
              /\ timed_out[2].timeout = 30
              /\ timed_out[2].at >= signals[1].at + 30
              /\ signals[2].at >= timed_out[2].at
    /\ \A i \in 1..Len(signals) : signals[i].sig \in {2, 9}
    /\ benchPc \in {"returned", "raised"} => proc_state # "running"
    /\ benchPc = "returned" => (proc_state = "exited" /\ returncode = <<0>>)
    /\ (benchPc = "raised" /\ proc_state = "exited") =>
          /\ benchErr = "CalledProcessError"
          /\ returncode # <<>>
          /\ returncode[1] # 0
          /\ err_code = returncode[1]

C21_Witness ==
    /\ benchPc = "raised"
    /\ duration_seconds > 0
    /\ Len(signals) = 2
    /\ signals[2].sig = 9
    /\ elapsed = duration_seconds + 60
    /\ returncode = <<-9>>
    /\ err_code = -9

====
